---- MODULE Spec2Model ----
(***************************************************************************)
(* Model of the MCP24LC32AT EEPROM driver                                  *)
(* (ICE_and_Homeworks/peripherals/c/eeprom.c).                             *)
(*                                                                         *)
(* The driver is a sequence of calls to the I2C bus primitives; every      *)
(* primitive call is one action of the model.  The primitives themselves   *)
(* (i2cSetSlaveAddr, i2cSendByte, i2cGetByte, I2CMasterBusy,               *)
(* I2CMasterAdrAck, i2cVerifyBaseAddr, the gpio_* calls) are external to   *)
(* the driver: they are modelled as a mock bus that logs every call,       *)
(* returns a status chosen by the environment, and forwards the bytes to   *)
(* a model of the EEPROM part.                                             *)
(***************************************************************************)
EXTENDS Integers, Sequences, FiniteSets, TLC

\* ---------------------------------------------------------------- bounds
\* unacknowledged probes the environment may answer in one poll
MaxProbes == 2
\* non-ok statuses the environment may inject into one top-level call
MaxFaults == 1
\* longest string written by write_to_eeprom
MaxStrLen == 2

\* ------------------------------------------------------------- constants
Callers  == {1, 2}
OK       == "I2C_OK"
INVALID  == "I2C_INVALID_BASE"
\* the non-ok status a transfer can end with on a valid bus
FaultStatus == {"I2C_NO_ACK"}
START    == "START"
RUN      == "RUN"
STOP     == "STOP"
WRITE    == "I2C_WRITE"
READ     == "I2C_READ"
NoMode   == "-"
\* value seen on the bus when no device drives it, and of an erased cell
Erased   == 255
\* size of the address space decoded by the part (low 12 bits)
MemSize  == 4096

\* sample of the 16-bit addresses handed to the driver: 255 and 256 differ
\* in both address bytes, and 4351 aliases cell 255 (only 12 bits are
\* decoded by the part)
AddrSet  == {255, 256, 4351}
\* sample of the data bytes
DataSet  == {0, 65, Erased}
\* bytes of a C string (no terminator inside)
StrBytes == DataSet \ {0}
\* offsets of the demo strings
OffsetSet == {255}

DevAddr(a) == a % MemSize
MemAddrs == {DevAddr(a) : a \in AddrSet}
              \cup {DevAddr(o + i) : o \in OffsetSet, i \in 0..(MaxStrLen - 1)}

VARIABLES
  pc,       \* [caller -> position in the driver code]
  op,       \* [caller -> top-level operation in progress]
  base,     \* [caller -> TRUE iff i2c_base passes i2cVerifyBaseAddr]
  address,  \* [caller -> address argument of the byte call]
  data,     \* [caller -> data argument of eeprom_byte_write]
  status,   \* [caller -> local status of eeprom_byte_write/read]
  pstatus,  \* [caller -> local status of eeprom_wait_for_write]
  pret,     \* [caller -> where eeprom_wait_for_write returns to]
  ret,      \* [caller -> value returned by the last byte call]
  dataOut,  \* [caller -> the caller's *data / read_val]
  faults,   \* [caller -> non-ok statuses injected into the current call]
  cfgLog,   \* mock call log of the configuration calls of eeprom_init
  initRet,  \* value returned by eeprom_init ("none" before it returns)
  prev,     \* [caller -> address and data of the byte write that was the
            \*  caller's last call and met no fault, else NoPrev] (history)
  overlap,  \* [caller -> TRUE iff another caller was inside a call at some
            \*  point of the caller's current call] (history)
  str,      \* [caller -> string of the demo]
  org,      \* [caller -> offset the demo writes and reads the string at]
  off,      \* [caller -> address variable of write_to_eeprom]
  idx,      \* [caller -> loop variable i of the demo loops]
  dret,     \* [caller -> where the demo continues after a byte call]
  printed,  \* [caller -> characters printed by the demo's read loop]
  bus,      \* I2C master registers: slave-address mode, busy, address ack
  dev,      \* EEPROM part: transaction phase, latches, write cycle
  mem,      \* EEPROM cells
  log,      \* mock call log of the bus primitives
  gpc,         \* position in the code of game.c
  readyShoot,  \* extern bool readyShoot
  touch_event, \* extern uint8_t touch_event
  numBullets,  \* int numBullets
  octopus,     \* xPos and yPos of the octopus
  bullet,      \* xPos, yPos and hit of the bullet
  sprite,      \* xPos and yPos of the sprite ptr points to in a move
  arg,         \* arguments of the call of game.c in progress
  i16,         \* uint16_t i, the loop variable of move_Left / move_Right
  final_x,     \* uint16_t final_x, or the limit the loop runs to
  drawn        \* TRUE iff the move in progress has drawn (history)

vars == <<pc, op, base, address, data, status, pstatus, pret, ret, dataOut,
          faults, prev, overlap, cfgLog, initRet, str, org, off, idx, dret, printed,
          bus, dev, mem, log, gpc, readyShoot, touch_event, numBullets,
          octopus, bullet, sprite, arg, i16, final_x, drawn>>

gameVars == <<gpc, readyShoot, touch_event, numBullets, octopus, bullet,
              sprite, arg, i16, final_x, drawn>>
hwVars   == <<bus, dev, mem>>
initVars == <<cfgLog, initRet>>
demoVars == <<str, org, off, idx, dret, printed>>
histVars == <<prev, overlap>>
argVars  == <<op, base, address, data, histVars, initVars, demoVars,
              gameVars>>

\* ------------------------------------------------------ the EEPROM part
\* The part does not answer while it commits a write (write cycle), nor
\* when it is absent or broken (dead).
DevBusy(d) == d.wc \/ d.dead

Cell(m, p) == IF p \in DOMAIN m THEN m[p] ELSE Erased

Store(m, p, b) == IF p \in DOMAIN m THEN [m EXCEPT ![p] = b] ELSE m

\* STOP condition: a write transaction that received a data byte is
\* committed and the write cycle starts.
DevIdle(d) == [d EXCEPT !.phase = "idle", !.hi = 0, !.latch = 0]

DevStop(d, m) ==
  IF d.phase = "data"
    THEN [dev |-> [DevIdle(d) EXCEPT !.wc = TRUE],
          mem |-> Store(m, d.ptr, d.latch)]
    ELSE [dev |-> DevIdle(d), mem |-> m]

\* One byte transmitted to the part (slave address in write mode).
DevReceive(d, byte, start) ==
  IF start
    THEN IF DevBusy(d) THEN DevIdle(d)
         ELSE [DevIdle(d) EXCEPT !.phase = "hi", !.hi = byte]
    ELSE CASE d.phase = "hi" ->
                [d EXCEPT !.phase = "lo",
                          !.ptr = DevAddr((d.hi * 256) + byte)]
           [] d.phase \in {"lo", "data"} ->
                [d EXCEPT !.phase = "data", !.latch = byte]
           [] OTHER -> d

\* One byte received from the part (slave address in read mode): the cell
\* at the address pointer.  The part would also advance the pointer for a
\* sequential read; the driver only makes single-byte reads that set the
\* pointer first, so the pointer is kept where the last address bytes put
\* it.
DevTransmit(d, start) ==
  IF (start /\ ~DevBusy(d)) \/ (~start /\ d.phase = "rd")
    THEN [DevIdle(d) EXCEPT !.phase = "rd"]
    ELSE DevIdle(d)

\* A transfer of the master as the part sees it: a byte goes out in write
\* mode, one byte comes back in read mode.  Yields the new part, the new
\* cells, the byte received and the address-acknowledge flag.
Transfer(d, m, b, byte, flags) ==
  LET start == START \in flags
      ack   == IF start THEN ~DevBusy(d) ELSE b.adrAck
      d1    == IF b.mode = WRITE THEN DevReceive(d, byte, start)
                                 ELSE DevTransmit(d, start)
      got   == IF b.mode = READ /\ d1.phase = "rd" THEN Cell(m, d.ptr)
                                                     ELSE Erased
      fin   == IF STOP \in flags THEN DevStop(d1, m)
                                 ELSE [dev |-> d1, mem |-> m]
  IN  [dev |-> fin.dev, mem |-> fin.mem, got |-> got, ack |-> ack]

\* --------------------------------------------------------- the mock bus
Entry(c, o, mode, byte, flags, st, ack) ==
  [by |-> c, op |-> o, mode |-> mode, byte |-> byte, flags |-> flags,
   st |-> st, ack |-> ack]

\* The statuses a primitive may return to caller c: an invalid base is
\* always refused; otherwise ok, or a fault while the budget lasts.
StatusChoices(c) ==
  IF ~base[c] THEN {INVALID}
  ELSE {OK} \cup (IF faults[c] < MaxFaults THEN FaultStatus ELSE {})

CountFault(c, st) ==
  faults' = [faults EXCEPT ![c] = IF st \in FaultStatus THEN @ + 1 ELSE @]

\* i2cSetSlaveAddr(base, MCP24LC32AT_DEV_ID, mode) returning st
BusSetSlaveAddr(c, mode, st) ==
  /\ bus' = IF st = OK THEN [bus EXCEPT !.mode = mode] ELSE bus
  /\ log' = Append(log, Entry(c, "setaddr", mode, 0, {}, st, FALSE))
  /\ CountFault(c, st)
  /\ UNCHANGED <<dev, mem>>

\* The registers and the part after a primitive that starts a transfer:
\* ok runs the transfer; a fault aborts it (the part sees a STOP without
\* data, the acknowledge flag is whatever the failed address phase left);
\* an invalid base touches nothing.
BusTransfer(c, o, byte, flags, st, busyAfter, ackOnFault) ==
  LET t  == Transfer(dev, mem, bus, byte, flags)
      ack == CASE st = OK -> t.ack
               [] st = INVALID -> bus.adrAck
               [] OTHER -> IF START \in flags THEN ackOnFault
                                              ELSE bus.adrAck
  IN  /\ CASE st = OK ->
                /\ dev' = t.dev
                /\ mem' = t.mem
                /\ bus' = [bus EXCEPT !.adrAck = ack, !.busy = busyAfter]
           [] st = INVALID -> UNCHANGED <<bus, dev, mem>>
           [] OTHER ->
                /\ dev' = DevIdle(dev)
                /\ mem' = mem
                /\ bus' = [bus EXCEPT !.adrAck = ack, !.busy = busyAfter]
      /\ log' = Append(log, Entry(c, o, NoMode,
                                  IF o = "send" THEN byte ELSE 0,
                                  flags, st, ack))
      /\ CountFault(c, st)

\* i2cSendByte(base, byte, flags) returning st
BusSendByte(c, byte, flags, st, busyAfter, ackOnFault) ==
  BusTransfer(c, "send", byte, flags, st, busyAfter, ackOnFault)

\* the acknowledge flag a failed transfer with START may leave: the
\* address phase can only have been acknowledged by a part that answers
AckChoices(st) ==
  IF st \in FaultStatus /\ ~DevBusy(dev) THEN BOOLEAN ELSE {FALSE}

\* i2cGetByte(base, data, flags) returning st: the byte received is
\* stored through the data pointer; what a failed call leaves there is
\* not defined by the driver (unchanged, or the idle bus level).  With
\* the slave address in write mode the master transmits instead: `stale'
\* is the byte that goes out, and the idle bus level is what comes back.
BusGetByte(c, flags, st, ackOnFault, junk, stale) ==
  /\ BusTransfer(c, "get", stale, flags, st, FALSE, ackOnFault)
  /\ dataOut' = [dataOut EXCEPT ![c] =
                   CASE st = OK -> Transfer(dev, mem, bus, stale, flags).got
                     [] st = INVALID -> @
                     [] OTHER -> IF junk THEN Erased ELSE @]

\* ------------------------------------------------- eeprom.c, the driver
\* faulty variant: the shift is missing
HiByteNoShift(a) == a % 256

\* (address>>8) passed as the uint8_t data of i2cSendByte
HiByte(a) == (a \div 256) % 256

\* faulty variant: the high byte is sent again as the low byte
LoByteHigh(a) == (a \div 256) % 256

\* (uint8_t) address
LoByte(a) == a % 256

ProbeFlags == {START, RUN, STOP}
HiFlags    == {START, RUN}
LoFlags    == {RUN}
\* faulty variant: the data byte framed without STOP
DataFlagsNoStop == {RUN}

DataFlags  == {RUN, STOP}
GetFlags   == {START, RUN, STOP}

\* faulty variant: the status check left out
OnStatusIgnored(st, next) == next

\* if (status != I2C_OK) return status;
OnStatus(st, next) == IF st # OK THEN "ret" ELSE next

\* faulty variant: the status of the poll is checked like the others
AfterWaitChecked(st, next) == IF st # OK THEN "ret" ELSE next

\* eeprom_wait_for_write(i2c_base); -- the value it returns is dropped
AfterWait(st, next) == next

\* faulty variant: the poll gives up after one probe
PollAgainNever(ack) == FALSE

\* } while (I2CMasterAdrAck(i2c_base) == false);
PollAgain(ack) == ack = FALSE

Goto(c, target, st) ==
  /\ pc' = [pc EXCEPT ![c] = target]
  /\ ret' = [ret EXCEPT ![c] = IF target = "ret" THEN st ELSE @]

\* probes of caller c in the log
IsProbe(e) == e.op = "send" /\ e.flags = ProbeFlags
Probes(c) == SelectSeq(log, LAMBDA e : e.by = c /\ IsProbe(e))

\* faulty variant: the loop condition negated, while ( !I2CMasterBusy(i2c_base))
WaitIdleNegated(c, here, next) ==
  /\ pc[c] = here
  /\ bus.busy
  /\ pc' = [pc EXCEPT ![c] = next]
  /\ UNCHANGED <<argVars, status, pstatus, pret, ret, dataOut, faults,
                 hwVars, log>>

\* while ( I2CMasterBusy(i2c_base)) {};
WaitIdle(c, here, next) ==
  /\ pc[c] = here
  /\ ~bus.busy
  /\ pc' = [pc EXCEPT ![c] = next]
  /\ UNCHANGED <<argVars, status, pstatus, pret, ret, dataOut, faults,
                 hwVars, log>>

\* --- eeprom_wait_for_write
\* faulty variant: the base address is not verified
PollVerifySkipped(c) ==
  /\ pc[c] = "p_verify"
  /\ pc' = [pc EXCEPT ![c] = "p_setaddr"]
  /\ UNCHANGED <<argVars, status, pstatus, pret, ret, dataOut, faults,
                 hwVars, log>>

\* if(!i2cVerifyBaseAddr(i2c_base)) return I2C_INVALID_BASE;
PollVerify(c) ==
  /\ pc[c] = "p_verify"
  /\ IF ~base[c]
       THEN /\ pstatus' = [pstatus EXCEPT ![c] = INVALID]
            /\ pc' = [pc EXCEPT ![c] = "p_ret"]
       ELSE /\ pc' = [pc EXCEPT ![c] = "p_setaddr"]
            /\ UNCHANGED pstatus
  /\ UNCHANGED <<argVars, status, pret, ret, dataOut, faults, hwVars, log>>

PollSetAddr(c) ==
  /\ pc[c] = "p_setaddr"
  /\ \E st \in StatusChoices(c) :
       /\ BusSetSlaveAddr(c, WRITE, st)
       /\ pstatus' = [pstatus EXCEPT ![c] = st]
  /\ pc' = [pc EXCEPT ![c] = "p_send"]
  /\ UNCHANGED <<argVars, status, pret, ret, dataOut>>

PollSend(c) ==
  /\ pc[c] = "p_send"
  /\ \E st \in StatusChoices(c), busyAfter \in BOOLEAN :
       \E ackOnFault \in AckChoices(st) :
         /\ BusSendByte(c, 0, ProbeFlags, st, busyAfter, ackOnFault)
         /\ pstatus' = [pstatus EXCEPT ![c] = st]
  \* the model stops counting unanswered probes at MaxProbes
  /\ bus'.adrAck \/ Len(Probes(c)) < MaxProbes
  /\ pc' = [pc EXCEPT ![c] = "p_busy"]
  /\ UNCHANGED <<argVars, status, pret, ret, dataOut>>

PollWaitBusy(c) == WaitIdle(c, "p_busy", "p_ack")

PollCheckAck(c) ==
  /\ pc[c] = "p_ack"
  /\ pc' = [pc EXCEPT ![c] = IF PollAgain(bus.adrAck) THEN "p_send"
                                                       ELSE "p_ret"]
  /\ UNCHANGED <<argVars, status, pstatus, pret, ret, dataOut, faults,
                 hwVars, log>>

PollReturn(c) ==
  /\ pc[c] = "p_ret"
  /\ Goto(c, AfterWait(pstatus[c], pret[c]), pstatus[c])
  /\ UNCHANGED <<argVars, status, pstatus, pret, dataOut, faults,
                 hwVars, log>>

\* a byte call begins: it overlaps the calls other callers are inside of
Enter(c) ==
  overlap' = [d \in Callers |->
                IF d = c THEN \E e \in Callers \ {c} : pc[e] # "idle"
                         ELSE overlap[d] \/ pc[d] # "idle"]

\* --- eeprom_byte_write
CallByteWrite(c) ==
  /\ pc[c] = "idle"
  /\ \E b \in BOOLEAN, a \in AddrSet, d \in DataSet :
       /\ op' = [op EXCEPT ![c] = "write"]
       /\ base' = [base EXCEPT ![c] = b]
       /\ address' = [address EXCEPT ![c] = a]
       /\ data' = [data EXCEPT ![c] = d]
  /\ \E busy \in BOOLEAN : bus' = [bus EXCEPT !.busy = busy]
  /\ pc' = [pc EXCEPT ![c] = "w_busy"]
  /\ Enter(c)
  /\ UNCHANGED <<status, pstatus, pret, ret, dataOut, faults, prev, initVars,
                 demoVars, gameVars, dev, mem, log>>

WriteWaitIdle(c) == WaitIdle(c, "w_busy", "w_setaddr")

WriteSetAddr(c) ==
  /\ pc[c] = "w_setaddr"
  /\ \E st \in StatusChoices(c) :
       /\ BusSetSlaveAddr(c, WRITE, st)
       /\ status' = [status EXCEPT ![c] = st]
       /\ Goto(c, OnStatus(st, "w_wait"), st)
  /\ UNCHANGED <<argVars, pstatus, pret, dataOut>>

WriteCallWait(c) ==
  /\ pc[c] = "w_wait"
  /\ pc' = [pc EXCEPT ![c] = "p_verify"]
  /\ pret' = [pret EXCEPT ![c] = "w_hi"]
  /\ UNCHANGED <<argVars, status, pstatus, ret, dataOut, faults, hwVars, log>>

\* status = i2cSendByte(...); if (status != I2C_OK) return status;
SendStep(c, here, byte, flags, next) ==
  /\ pc[c] = here
  /\ \E st \in StatusChoices(c) :
       \E ackOnFault \in (IF START \in flags THEN AckChoices(st)
                                              ELSE {FALSE}) :
         /\ BusSendByte(c, byte, flags, st, FALSE, ackOnFault)
         /\ status' = [status EXCEPT ![c] = st]
         /\ Goto(c, OnStatus(st, next), st)
  /\ UNCHANGED <<argVars, pstatus, pret, dataOut>>

WriteSendHi(c) == SendStep(c, "w_hi", HiByte(address[c]), HiFlags, "w_lo")

WriteSendLo(c) == SendStep(c, "w_lo", LoByte(address[c]), LoFlags, "w_data")

WriteSendData(c) == SendStep(c, "w_data", data[c], DataFlags, "ret")

\* --- eeprom_byte_read
CallByteRead(c) ==
  /\ pc[c] = "idle"
  /\ \E b \in BOOLEAN, a \in AddrSet :
       /\ op' = [op EXCEPT ![c] = "read"]
       /\ base' = [base EXCEPT ![c] = b]
       /\ address' = [address EXCEPT ![c] = a]
  /\ \E busy \in BOOLEAN : bus' = [bus EXCEPT !.busy = busy]
  /\ pc' = [pc EXCEPT ![c] = "r_busy"]
  \* what the caller's destination holds before the call is arbitrary
  /\ \E d \in DataSet : dataOut' = [dataOut EXCEPT ![c] = d]
  /\ Enter(c)
  /\ UNCHANGED <<data, status, pstatus, pret, ret, faults, prev, initVars,
                 demoVars, gameVars, dev, mem, log>>

ReadWaitIdle(c) == WaitIdle(c, "r_busy", "r_wait")

ReadCallWait(c) ==
  /\ pc[c] = "r_wait"
  /\ pc' = [pc EXCEPT ![c] = "p_verify"]
  /\ pret' = [pret EXCEPT ![c] = "r_setw"]
  /\ UNCHANGED <<argVars, status, pstatus, ret, dataOut, faults, hwVars, log>>

\* faulty variant: the status of i2cSetSlaveAddr is stored, not checked
SetAddrStepUnchecked(c, here, mode, next) ==
  /\ pc[c] = here
  /\ \E st \in StatusChoices(c) :
       /\ BusSetSlaveAddr(c, mode, st)
       /\ status' = [status EXCEPT ![c] = st]
       /\ Goto(c, next, st)
  /\ UNCHANGED <<argVars, pstatus, pret, dataOut>>

\* status = i2cSetSlaveAddr(...); if (status != I2C_OK) return status;
SetAddrStep(c, here, mode, next) ==
  /\ pc[c] = here
  /\ \E st \in StatusChoices(c) :
       /\ BusSetSlaveAddr(c, mode, st)
       /\ status' = [status EXCEPT ![c] = st]
       /\ Goto(c, OnStatus(st, next), st)
  /\ UNCHANGED <<argVars, pstatus, pret, dataOut>>

ReadSetAddrW(c) == SetAddrStep(c, "r_setw", WRITE, "r_hi")

ReadSendHi(c) == SendStep(c, "r_hi", HiByte(address[c]), HiFlags, "r_lo")

\* faulty variant: the low address byte is not sent
ReadSendLoSkipped(c) ==
  /\ pc[c] = "r_lo"
  /\ pc' = [pc EXCEPT ![c] = "r_setr"]
  /\ UNCHANGED <<argVars, status, pstatus, pret, ret, dataOut, faults,
                 hwVars, log>>

ReadSendLo(c) == SendStep(c, "r_lo", LoByte(address[c]), LoFlags, "r_setr")

ReadSetAddrR(c) == SetAddrStep(c, "r_setr", READ, "r_get")

ReadGetByte(c) ==
  /\ pc[c] = "r_get"
  /\ \E st \in StatusChoices(c) :
       \E ackOnFault \in AckChoices(st),
          junk \in (IF st \in FaultStatus THEN BOOLEAN ELSE {FALSE}),
          stale \in (IF bus.mode = WRITE THEN DataSet ELSE {0}) :
         /\ BusGetByte(c, GetFlags, st, ackOnFault, junk, stale)
         /\ status' = [status EXCEPT ![c] = st]
         /\ Goto(c, "ret", st)
  /\ UNCHANGED <<argVars, pstatus, pret>>

\* --- eeprom_init
GpioSteps ==
  << "gpio_enable_port",
     "scl_digital_enable", "scl_alternate_function", "scl_port_control",
     "sda_digital_enable", "sda_open_drain", "sda_alternate_function",
     "sda_port_control" >>

MasterStep == "initializeI2CMaster"

\* faulty variant: the result of a configuration step is not looked at
GpioFailedNever(res) == FALSE

\* if(gpio_...(...) == false) { return false; }
GpioFailed(res) == res = FALSE

\* faulty variant: the status of initializeI2CMaster is not looked at
MasterFailedNever(st) == FALSE

\* if( initializeI2CMaster(EEPROM_I2C_BASE) != I2C_OK) { return false; }
MasterFailed(st) == st # OK

CallInit(c) ==
  /\ pc[c] = "idle"
  /\ op' = [op EXCEPT ![c] = "init"]
  /\ pc' = [pc EXCEPT ![c] = "i_gpio"]
  /\ UNCHANGED <<base, address, data, histVars, gameVars, initVars, demoVars, status,
                 pstatus, pret, ret, dataOut, faults, hwVars, log>>

InitGpio(c) ==
  /\ pc[c] = "i_gpio"
  /\ LET k == Len(cfgLog) + 1 IN
       \E res \in BOOLEAN :
         /\ cfgLog' = Append(cfgLog, [step |-> GpioSteps[k], ok |-> res])
         /\ IF GpioFailed(res)
              THEN /\ initRet' = "false"
                   /\ pc' = [pc EXCEPT ![c] = "ret"]
              ELSE /\ initRet' = initRet
                   /\ pc' = [pc EXCEPT ![c] = IF k = Len(GpioSteps)
                                               THEN "i_master" ELSE "i_gpio"]
  /\ UNCHANGED <<op, base, address, data, histVars, gameVars, demoVars, status, pstatus,
                 pret, ret, dataOut, faults, hwVars, log>>

InitMaster(c) ==
  /\ pc[c] = "i_master"
  /\ \E st \in {OK} \cup FaultStatus :
       /\ cfgLog' = Append(cfgLog, [step |-> MasterStep, ok |-> st = OK])
       /\ initRet' = IF MasterFailed(st) THEN "false" ELSE "true"
  /\ pc' = [pc EXCEPT ![c] = "ret"]
  /\ UNCHANGED <<op, base, address, data, histVars, gameVars, demoVars, status, pstatus,
                 pret, ret, dataOut, faults, hwVars, log>>

\* --- write_to_eeprom and the read-back loop of eeprom_init_write_read
MaxU16 == 65535

U16(x) == x % (MaxU16 + 1)

\* (uint8_t) string[i] and (char) read_val: plain char is unsigned on the
\* target (ARM), so both conversions keep the value reduced to 8 bits
U8(x) == x % 256

\* faulty variant: the index is not used
CharAtFirst(s, i) == s[1]

\* string[i]
CharAt(s, i) == s[i + 1]

SeqsUpTo(S, n) == UNION {[1..k -> S] : k \in 0..n}

Strings == SeqsUpTo(StrBytes, MaxStrLen)

CallDemo(c) ==
  /\ pc[c] = "idle"
  /\ op' = [op EXCEPT ![c] = "demo"]
  /\ \E s \in Strings, o \in OffsetSet, d \in DataSet :
       /\ str' = [str EXCEPT ![c] = s]
       /\ org' = [org EXCEPT ![c] = o]
       /\ off' = [off EXCEPT ![c] = o]
       \* read_val is not initialised
       /\ dataOut' = [dataOut EXCEPT ![c] = d]
  /\ idx' = [idx EXCEPT ![c] = 0]
  /\ pc' = [pc EXCEPT ![c] = "d_wloop"]
  /\ UNCHANGED <<base, address, data, histVars, gameVars, initVars, dret, printed, status,
                 pstatus, pret, ret, faults, hwVars, log>>

\* for (i = 0; i < strlen(string); i++)
\*   eeprom_byte_write(I2C1_BASE, address++, (uint8_t) string[i]);
DemoWriteLoop(c) ==
  /\ pc[c] = "d_wloop"
  /\ IF idx[c] < Len(str[c])
       THEN /\ address' = [address EXCEPT ![c] = off[c]]
            /\ off' = [off EXCEPT ![c] = U16(@ + 1)]
            /\ data' = [data EXCEPT ![c] = U8(CharAt(str[c], idx[c]))]
            /\ dret' = [dret EXCEPT ![c] = "d_wnext"]
            /\ pc' = [pc EXCEPT ![c] = "w_busy"]
            /\ UNCHANGED idx
       ELSE \* back in eeprom_init_write_read: for (i = 490; ...
            /\ idx' = [idx EXCEPT ![c] = org[c]]
            /\ pc' = [pc EXCEPT ![c] = "d_rloop"]
            /\ UNCHANGED <<address, off, data, dret>>
  /\ UNCHANGED <<op, base, histVars, gameVars, initVars, str, org, printed, status, pstatus,
                 pret, ret, dataOut, faults, hwVars, log>>

DemoWriteNext(c) ==
  /\ pc[c] = "d_wnext"
  /\ idx' = [idx EXCEPT ![c] = @ + 1]
  /\ pc' = [pc EXCEPT ![c] = "d_wloop"]
  /\ UNCHANGED <<op, base, address, data, histVars, gameVars, initVars, str, org, off, dret,
                 printed, status, pstatus, pret, ret, dataOut, faults, hwVars,
                 log>>

\* for (i = 490; i < 490+strlen(teamNum); i++)
\*   { read_from_eprom(i, &read_val); printf("%c", (char) read_val); }
DemoReadLoop(c) ==
  /\ pc[c] = "d_rloop"
  /\ IF idx[c] < org[c] + Len(str[c])
       THEN /\ address' = [address EXCEPT ![c] = U16(idx[c])]
            /\ dret' = [dret EXCEPT ![c] = "d_print"]
            /\ pc' = [pc EXCEPT ![c] = "r_busy"]
       ELSE /\ pc' = [pc EXCEPT ![c] = "d_done"]
            /\ UNCHANGED <<address, dret>>
  /\ UNCHANGED <<op, base, data, histVars, gameVars, initVars, str, org, off, idx, printed,
                 status, pstatus, pret, ret, dataOut, faults, hwVars, log>>

DemoPrint(c) ==
  /\ pc[c] = "d_print"
  /\ printed' = [printed EXCEPT ![c] = Append(@, U8(dataOut[c]))]
  /\ idx' = [idx EXCEPT ![c] = @ + 1]
  /\ pc' = [pc EXCEPT ![c] = "d_rloop"]
  /\ UNCHANGED <<op, base, address, data, histVars, gameVars, initVars, str, org, off, dret,
                 status, pstatus, pret, ret, dataOut, faults, hwVars, log>>

\* --- return to the caller: the locals of the call are gone
NoStatus == "none"

NoPrev == [a |-> -1, d |-> -1]

\* return from eeprom_byte_write / eeprom_byte_read into the demo, which
\* drops the status
ReturnToDemo(c) ==
  /\ pc[c] = "ret"
  /\ op[c] = "demo"
  /\ pc' = [pc EXCEPT ![c] = dret[c]]
  /\ address' = [address EXCEPT ![c] = 0]
  /\ data' = [data EXCEPT ![c] = 0]
  /\ status' = [status EXCEPT ![c] = NoStatus]
  /\ pstatus' = [pstatus EXCEPT ![c] = NoStatus]
  /\ pret' = [pret EXCEPT ![c] = "none"]
  /\ ret' = [ret EXCEPT ![c] = NoStatus]
  /\ dret' = [dret EXCEPT ![c] = "none"]
  /\ log' = SelectSeq(log, LAMBDA e : e.by # c)
  /\ UNCHANGED <<op, base, histVars, gameVars, initVars, str, org, off, idx, printed,
                 dataOut, faults, hwVars>>

\* return of a top-level call, or the end of the demo
Return(c) ==
  /\ \/ pc[c] = "ret" /\ op[c] # "demo"
     \/ pc[c] = "d_done"
  /\ pc' = [pc EXCEPT ![c] = "idle"]
  /\ op' = [op EXCEPT ![c] = "none"]
  /\ base' = [base EXCEPT ![c] = TRUE]
  /\ address' = [address EXCEPT ![c] = 0]
  /\ data' = [data EXCEPT ![c] = 0]
  /\ status' = [status EXCEPT ![c] = NoStatus]
  /\ pstatus' = [pstatus EXCEPT ![c] = NoStatus]
  /\ pret' = [pret EXCEPT ![c] = "none"]
  /\ ret' = [ret EXCEPT ![c] = NoStatus]
  /\ faults' = [faults EXCEPT ![c] = 0]
  /\ dataOut' = [dataOut EXCEPT ![c] = 0]
  /\ cfgLog' = <<>>
  /\ initRet' = "none"
  /\ prev' = [prev EXCEPT ![c] =
                IF op[c] = "write" /\ base[c] /\ faults[c] = 0
                  THEN [a |-> address[c], d |-> data[c]]
                  ELSE NoPrev]
  /\ overlap' = [overlap EXCEPT ![c] = FALSE]
  /\ str' = [str EXCEPT ![c] = <<>>]
  /\ org' = [org EXCEPT ![c] = 0]
  /\ off' = [off EXCEPT ![c] = 0]
  /\ idx' = [idx EXCEPT ![c] = 0]
  /\ dret' = [dret EXCEPT ![c] = "none"]
  /\ printed' = [printed EXCEPT ![c] = <<>>]
  /\ log' = SelectSeq(log, LAMBDA e : e.by # c)
  /\ UNCHANGED <<hwVars, gameVars>>

\* ------------------------------------------------------ the environment
\* the master finishes what it was doing
BusIdle ==
  /\ bus.busy
  /\ bus' = [bus EXCEPT !.busy = FALSE]
  /\ UNCHANGED <<pc, argVars, status, pstatus, pret, ret, dataOut, faults,
                 dev, mem, log>>

\* the part finishes committing the last write
WriteCycleDone ==
  /\ dev.wc
  /\ ~dev.dead
  /\ dev' = [dev EXCEPT !.wc = FALSE]
  /\ UNCHANGED <<pc, argVars, status, pstatus, pret, ret, dataOut, faults,
                 bus, mem, log>>

\* ------------------------------------------------------- game.c, the game
\* the bound of the model on shots fired with no ammunition left
MaxOverdraw == 2

\* sample of the values of touch_event (uint8_t)
TouchSet == {0, 1}

\* sample of the positions of the octopus: the bullet starts 5 to the left
\* and 29 above, so these starts pass left of shield 1 (x 39), touch its
\* left end (x 40), pass between the shields (x 80) and touch the left end
\* of shield 0 (x 90); they lie below both shields (y 150), one row below
\* the bottom edge of shield 1 (141), one row below and on the bottom edge
\* of shield 0 (101, 100), and at the top of the screen (2, 1, 0)
OctXSet == {44, 45, 85, 95}
OctYSet == {29, 30, 31, 129, 130, 170, 179}

\* _GameObj shieldArray[] (the fields shootBullet reads)
shieldArray ==
  << [width |-> 50, height |-> 50, xPos |-> 100, yPos |-> 50],
     [width |-> 30, height |-> 20, xPos |-> 50, yPos |-> 120] >>

\* sizeof(shieldArray) / sizeof(shieldArray[0])
numShields == Len(shieldArray)

NoArg == [xPos |-> 0, yPos |-> 0, num_pixels |-> 0, lim |-> 0, type |-> "-"]

\* the globals of game.c as their initialisers leave them; the octopus
\* stands at the first sampled height (OCTOPUS_Y_MAX is not in game.c)
InitGameState ==
  /\ gpc = "idle"
  /\ readyShoot = FALSE
  /\ touch_event = 0
  /\ numBullets = 10
  /\ octopus = [width |-> 53, xPos |-> 120, yPos |-> 179]
  /\ bullet = [width |-> 10, xPos |-> 0, yPos |-> 0, hit |-> FALSE]
  /\ sprite = [xPos |-> 0, yPos |-> 0]
  /\ arg = NoArg
  /\ i16 = 0
  /\ final_x = 0
  /\ drawn = FALSE

driverVars == <<pc, op, base, address, data, status, pstatus, pret, ret,
                dataOut, faults, prev, overlap, cfgLog, initRet, str, org,
                off, idx, dret, printed, bus, dev, mem, log>>

shootVars == <<readyShoot, touch_event, numBullets, octopus, bullet>>
moveVars  == <<sprite, i16, final_x, drawn>>

\* --- checkShooting
CallCheckShooting ==
  /\ gpc = "idle"
  /\ gpc' = "cs_test"
  /\ UNCHANGED <<driverVars, shootVars, moveVars, arg>>

\* faulty variant: the bullet is fired on a touch whether ready or not
ShootNowUnready(ready, touch) == touch > 0

\* if (readyShoot && (touch_event > 0))
ShootNow(ready, touch) == ready /\ touch > 0

\* readyShoot = false; numBullets--;
\* shootBullet(octopus.xPos -5, octopus.yPos - octopus.width/2 -3, &bullet);
CheckShootingTest ==
  /\ gpc = "cs_test"
  /\ IF ShootNow(readyShoot, touch_event)
       THEN /\ numBullets > 0 - MaxOverdraw
            /\ readyShoot' = FALSE
            /\ numBullets' = numBullets - 1
            /\ arg' = [NoArg EXCEPT
                         !.xPos = U16(octopus.xPos - 5),
                         !.yPos = U16(octopus.yPos
                                        - (octopus.width \div 2) - 3)]
            /\ gpc' = "sb_entry"
       ELSE /\ gpc' = "cs_ret"
            /\ UNCHANGED <<readyShoot, numBullets, arg>>
  /\ UNCHANGED <<driverVars, touch_event, octopus, bullet, moveVars>>

\* --- shootBullet
\* obj->yPos = yPos; obj->xPos = xPos;
ShootEntry ==
  /\ gpc = "sb_entry"
  /\ bullet' = [bullet EXCEPT !.xPos = arg.xPos, !.yPos = arg.yPos]
  /\ gpc' = "sb_loop"
  /\ UNCHANGED <<driverVars, readyShoot, touch_event, numBullets, octopus,
                 moveVars, arg>>

\* faulty variant: the bottom edge of the shield is not compared
HitsNoEdge(b, sh) ==
  /\ b.xPos < sh.xPos + sh.width
  /\ b.xPos + b.width >= sh.xPos

\* obj->yPos == (shieldArray[i].yPos + shieldArray[i].height) &&
\* obj->xPos < (shieldArray[i].xPos + shieldArray[i].width) &&
\* (obj->xPos + obj->width) >= shieldArray[i].xPos
Hits(b, sh) ==
  /\ b.yPos = sh.yPos + sh.height
  /\ b.xPos < sh.xPos + sh.width
  /\ b.xPos + b.width >= sh.xPos

\* while ( (obj->yPos > 1) && !obj->hit)
ShootOn(b) == b.yPos > 1 /\ ~b.hit

\* one pass of the loop: obj->yPos--; drawObject (which stores the same
\* x and y); for every shield: if it is hit, obj->hit = true
ShootStep ==
  /\ gpc = "sb_loop"
  /\ ShootOn(bullet)
  /\ LET b == [bullet EXCEPT !.yPos = U16(bullet.yPos - 1)] IN
       bullet' = [b EXCEPT !.hit =
                    @ \/ \E k \in 1..numShields : Hits(b, shieldArray[k])]
  /\ UNCHANGED <<driverVars, gpc, readyShoot, touch_event, numBullets,
                 octopus, moveVars, arg>>

\* the loop is left: lcd_draw_box erases the bullet; obj->hit = false;
ShootExit ==
  /\ gpc = "sb_loop"
  /\ ~ShootOn(bullet)
  /\ bullet' = [bullet EXCEPT !.hit = FALSE]
  /\ gpc' = "sb_ret"
  /\ UNCHANGED <<driverVars, readyShoot, touch_event, numBullets, octopus,
                 moveVars, arg>>

\* shootBullet returns into checkShooting
ShootReturn ==
  /\ gpc = "sb_ret"
  /\ gpc' = "cs_ret"
  /\ UNCHANGED <<driverVars, shootVars, moveVars, arg>>

\* --- move_Left and move_Right
\* the type tags of the sprites of game.c
TypeSet == {"character", "object"}

\* samples of the arguments: a move that stays inside the limit, one that
\* reaches it and one that would pass it, for limits in the screen (26,
\* 213), next to the ends of the uint16_t range (1, 65534) and at its ends
LeftXSet  == {3, 28}
RightXSet == {211, 65532}
NumSet    == {0, 2, 3, 5}
MinXSet   == {0, 1, 26}
MaxXSet   == {213, 65534, MaxU16}
MoveYSet  == {7}

\* drawCharacter: character->yPos = y; character->xPos = x;
drawCharacter(sp, x, y) == [sp EXCEPT !.xPos = x, !.yPos = y]

\* drawObject: obj->yPos = y; obj->xPos = x;
drawObject(sp, x, y) == [sp EXCEPT !.xPos = x, !.yPos = y]

\* if (!strcmp(type,"character")) drawCharacter(...);
\* else if (!strcmp(type, "object")) drawObject(...);
Draw(x) ==
  /\ sprite' = IF arg.type = "character"
                 THEN drawCharacter(sprite, x, arg.yPos)
                 ELSE IF arg.type = "object"
                   THEN drawObject(sprite, x, arg.yPos)
                   ELSE sprite
  /\ drawn' = TRUE

\* (int)(xPos - num_pixels): the difference is taken in uint32_t and read
\* back as an int, which gives the signed difference for operands below
\* 2^31
IntDiff(x, n) == x - n

CallMove(here, XSet, LimSet) ==
  /\ gpc = "idle"
  /\ \E x \in XSet, n \in NumSet, m \in LimSet, t \in TypeSet,
        y \in MoveYSet :
       arg' = [xPos |-> x, yPos |-> y, num_pixels |-> n, lim |-> m,
               type |-> t]
  /\ gpc' = here
  /\ UNCHANGED <<driverVars, shootVars, moveVars>>

CallMoveLeft == CallMove("ml_test", LeftXSet, MinXSet)

CallMoveRight == CallMove("mr_test", RightXSet, MaxXSet)

\* if ((int)(xPos - num_pixels) < minX) for(i = xPos; i >= minX; i--)
\* else { uint16_t final_x = xPos - num_pixels; for(i = xPos; ...
MoveLeftTest ==
  /\ gpc = "ml_test"
  /\ final_x' = IF IntDiff(arg.xPos, arg.num_pixels) < arg.lim
                  THEN arg.lim
                  ELSE U16(arg.xPos - arg.num_pixels)
  /\ i16' = arg.xPos
  /\ gpc' = "ml_loop"
  /\ UNCHANGED <<driverVars, shootVars, sprite, drawn, arg>>

\* i >= final_x: draw at i; i--
MoveLeftStep ==
  /\ gpc = "ml_loop"
  /\ i16 >= final_x
  /\ Draw(i16)
  /\ i16' = U16(i16 - 1)
  /\ UNCHANGED <<driverVars, shootVars, gpc, final_x, arg>>

MoveLeftExit ==
  /\ gpc = "ml_loop"
  /\ ~(i16 >= final_x)
  /\ gpc' = "ml_ret"
  /\ UNCHANGED <<driverVars, shootVars, moveVars, arg>>

\* if ((xPos + num_pixels) > maxX) for(i = xPos; i <= maxX; i++)
\* else { uint16_t final_x = xPos + num_pixels; for(i = xPos; ...
MoveRightTest ==
  /\ gpc = "mr_test"
  /\ final_x' = IF arg.xPos + arg.num_pixels > arg.lim
                  THEN arg.lim
                  ELSE U16(arg.xPos + arg.num_pixels)
  /\ i16' = arg.xPos
  /\ gpc' = "mr_loop"
  /\ UNCHANGED <<driverVars, shootVars, sprite, drawn, arg>>

\* i <= final_x: draw at i; i++
MoveRightStep ==
  /\ gpc = "mr_loop"
  /\ i16 <= final_x
  /\ Draw(i16)
  /\ i16' = U16(i16 + 1)
  /\ UNCHANGED <<driverVars, shootVars, gpc, final_x, arg>>

MoveRightExit ==
  /\ gpc = "mr_loop"
  /\ ~(i16 <= final_x)
  /\ gpc' = "mr_ret"
  /\ UNCHANGED <<driverVars, shootVars, moveVars, arg>>

\* --- return to the game loop: the arguments and locals are gone
GameReturn ==
  /\ gpc \in {"cs_ret", "ml_ret", "mr_ret"}
  /\ gpc' = "idle"
  /\ arg' = NoArg
  /\ i16' = 0
  /\ final_x' = 0
  /\ drawn' = FALSE
  /\ UNCHANGED <<driverVars, shootVars, sprite>>

\* --- the rest of the game (not in game.c)
\* readyShoot is set again from outside
Rearm ==
  /\ ~readyShoot
  /\ readyShoot' = TRUE
  /\ UNCHANGED <<driverVars, gpc, touch_event, numBullets, octopus, bullet,
                 moveVars, arg>>

\* the touch screen reports another number of touch points
Touch ==
  /\ \E t \in TouchSet \ {touch_event} : touch_event' = t
  /\ UNCHANGED <<driverVars, gpc, readyShoot, numBullets, octopus, bullet,
                 moveVars, arg>>

\* the game loop has moved the octopus
Reposition ==
  /\ gpc = "idle"
  /\ \E x \in OctXSet, y \in OctYSet :
       /\ <<x, y>> # <<octopus.xPos, octopus.yPos>>
       /\ octopus' = [octopus EXCEPT !.xPos = x, !.yPos = y]
  /\ UNCHANGED <<driverVars, gpc, readyShoot, touch_event, numBullets,
                 bullet, moveVars, arg>>

\* ---------------------------------------------------------------- system
Init ==
  /\ pc = [c \in Callers |-> "idle"]
  /\ op = [c \in Callers |-> "none"]
  /\ base = [c \in Callers |-> TRUE]
  /\ address = [c \in Callers |-> 0]
  /\ data = [c \in Callers |-> 0]
  /\ status = [c \in Callers |-> NoStatus]
  /\ pstatus = [c \in Callers |-> NoStatus]
  /\ pret = [c \in Callers |-> "none"]
  /\ ret = [c \in Callers |-> NoStatus]
  /\ dataOut = [c \in Callers |-> 0]
  /\ faults = [c \in Callers |-> 0]
  /\ cfgLog = <<>>
  /\ initRet = "none"
  /\ prev = [c \in Callers |-> NoPrev]
  /\ overlap = [c \in Callers |-> FALSE]
  /\ str = [c \in Callers |-> <<>>]
  /\ org = [c \in Callers |-> 0]
  /\ off = [c \in Callers |-> 0]
  /\ idx = [c \in Callers |-> 0]
  /\ dret = [c \in Callers |-> "none"]
  /\ printed = [c \in Callers |-> <<>>]
  /\ bus = [mode |-> WRITE, busy |-> FALSE, adrAck |-> FALSE]
  /\ \E dead \in BOOLEAN :
       dev = [phase |-> "idle", hi |-> 0, latch |-> 0, ptr |-> 0,
              wc |-> FALSE, dead |-> dead]
  /\ mem = [a \in MemAddrs |-> Erased]
  /\ log = <<>>
  /\ InitGameState

\* the single calling context of the driver
Main == 1

\* the steps inside the byte calls and eeprom_wait_for_write
Step(c) ==
  \/ WriteWaitIdle(c) \/ WriteSetAddr(c) \/ WriteCallWait(c)
  \/ WriteSendHi(c) \/ WriteSendLo(c) \/ WriteSendData(c)
  \/ ReadWaitIdle(c) \/ ReadCallWait(c) \/ ReadSetAddrW(c)
  \/ ReadSendHi(c) \/ ReadSendLo(c) \/ ReadSetAddrR(c) \/ ReadGetByte(c)
  \/ PollVerify(c) \/ PollSetAddr(c) \/ PollSend(c) \/ PollWaitBusy(c)
  \/ PollCheckAck(c) \/ PollReturn(c)

\* eeprom_init, and the byte calls made with any base, address and data
Driver(c) ==
  \/ CallByteWrite(c) \/ CallByteRead(c) \/ Step(c)
  \/ CallInit(c) \/ InitGpio(c) \/ InitMaster(c)
  \/ Return(c)

Next == Driver(Main) \/ BusIdle \/ WriteCycleDone

Spec == Init /\ [][Next]_vars

\* the hardware does its part: the master goes idle, the write cycle ends,
\* and the processor runs the driver
FairSpec ==
  /\ Spec
  /\ WF_vars(Step(Main) \/ InitGpio(Main) \/ InitMaster(Main) \/ Return(Main))
  /\ WF_vars(BusIdle)
  /\ WF_vars(WriteCycleDone)

\* the demo at reset: strings written with write_to_eeprom and read back
Demo(c) ==
  \/ CallDemo(c) \/ DemoWriteLoop(c) \/ DemoWriteNext(c)
  \/ DemoReadLoop(c) \/ DemoPrint(c)
  \/ Step(c) \/ ReturnToDemo(c) \/ Return(c)

NextDemo == Demo(Main) \/ BusIdle \/ WriteCycleDone

SpecDemo == Init /\ [][NextDemo]_vars

\* a second calling context: a handler that interrupts the main loop on
\* the single core, makes byte calls of its own and runs to completion
\* before the main loop resumes (nothing in the driver locks the bus)
Isr == 2

\* the byte calls of one calling context
ByteCalls(c) ==
  \/ CallByteWrite(c) \/ CallByteRead(c) \/ Step(c) \/ Return(c)

\* the calls of c studied here are made with a valid base on a bus that
\* meets no fault: what goes wrong is due to the interleaving alone
Quiet(c) == base'[c] /\ faults'[c] = 0

\* the handler reads one cell (256) into a cleared buffer
IsrArgs ==
  pc[Isr] = "idle" =>
    (op'[Isr] = "read" /\ address'[Isr] = 256 /\ dataOut'[Isr] = 0)

\* the main loop runs while the handler is not active
MainRuns == pc[Isr] = "idle" /\ ByteCalls(Main) /\ Quiet(Main)

\* the handler can start between any two steps of the main loop
IsrRuns == ByteCalls(Isr) /\ Quiet(Isr) /\ IsrArgs

NextConc == MainRuns \/ IsrRuns \/ BusIdle \/ WriteCycleDone

\* a part that answers
InitConc == Init /\ ~dev.dead

SpecConc == InitConc /\ [][NextConc]_vars

\* --- the game: game.c on its own, the driver at rest
Shooting ==
  \/ CallCheckShooting \/ CheckShootingTest
  \/ ShootEntry \/ ShootStep \/ ShootExit \/ ShootReturn

NextShoot == Shooting \/ GameReturn \/ Rearm \/ Touch \/ Reposition

\* checkShooting called over and over by the game loop
SpecShoot == InitConc /\ [][NextShoot]_vars

\* the processor runs the code of game.c
FairSpecShoot == SpecShoot /\ WF_vars(Shooting \/ GameReturn)

Moving ==
  \/ MoveLeftTest \/ MoveLeftStep \/ MoveLeftExit
  \/ MoveRightTest \/ MoveRightStep \/ MoveRightExit

NextMove == CallMoveLeft \/ CallMoveRight \/ Moving \/ GameReturn

\* move_Left and move_Right called with any of the sampled arguments
SpecMove == InitConc /\ [][NextMove]_vars

FairSpecMove == SpecMove /\ WF_vars(Moving \/ GameReturn)

\* =================================================================== claims
Last(q) == q[Len(q)]

\* the bus met no fault in the current top-level call of c
Clean(c) == base[c] /\ faults[c] = 0

Returned(c, o) == pc[c] = "ret" /\ op[c] = o

IsSetAddr(e, mode) == e.op = "setaddr" /\ e.mode = mode

IsSend(e, byte, flags) == e.op = "send" /\ e.byte = byte /\ e.flags = flags

IsGet(e, flags) == e.op = "get" /\ e.flags = flags

UnackedProbe == \E i \in 1..Len(log) : IsProbe(log[i]) /\ ~log[i].ack

\* C1: on a bus whose operations all return ok, with a part that ends up
\* acknowledging, eeprom_byte_write(a, d) returns I2C_OK, and an
\* eeprom_byte_read(a) that directly follows it returns I2C_OK and d.
C1_RoundTrip ==
  /\ (Returned(Main, "write") /\ Clean(Main)) => ret[Main] = OK
  /\ (Returned(Main, "read") /\ Clean(Main) /\ prev[Main] # NoPrev
        /\ prev[Main].a = address[Main])
       => (ret[Main] = OK /\ dataOut[Main] = prev[Main].d)

\* a read of 65 just written at 256, whose poll met a part still in its
\* write cycle
C1_Witness ==
  /\ Returned(Main, "read") /\ Clean(Main)
  /\ prev[Main] = [a |-> 256, d |-> 65]
  /\ address[Main] = 256
  /\ ret[Main] = OK /\ dataOut[Main] = 65
  /\ UnackedProbe

\* the log of c after its last probe
AfterPoll(c) ==
  LET L == SelectSeq(log, LAMBDA e : e.by = c)
      K == {i \in 1..Len(L) : IsProbe(L[i])}
      k == IF K = {} THEN 0 ELSE CHOOSE i \in K : \A j \in K : j <= i
  IN  SubSeq(L, k + 1, Len(L))

\* C2: in a byte read that reaches the get-byte, the calls after the poll
\* are exactly set-slave-address(write), send(high, START|RUN),
\* send(low, RUN), set-slave-address(read), get-byte(START|RUN|STOP); read
\* mode is never set before both address bytes went out in write mode.
C2_ReadOrder ==
  op[Main] = "read" =>
    /\ (Len(log) > 0 /\ Last(log).op = "get") =>
         LET T == AfterPoll(Main) IN
           /\ Len(T) = 5
           /\ IsSetAddr(T[1], WRITE) /\ T[1].st = OK
           /\ IsSend(T[2], address[Main] \div 256, {START, RUN})
           /\ T[2].st = OK
           /\ IsSend(T[3], address[Main] % 256, {RUN}) /\ T[3].st = OK
           /\ IsSetAddr(T[4], READ) /\ T[4].st = OK
           /\ IsGet(T[5], {START, RUN, STOP})
    /\ \A i \in 1..Len(log) :
         IsSetAddr(log[i], READ) =>
           /\ i >= 4
           /\ IsSetAddr(log[i - 3], WRITE) /\ log[i - 3].st = OK
           /\ IsSend(log[i - 2], address[Main] \div 256, {START, RUN})
           /\ log[i - 2].st = OK
           /\ IsSend(log[i - 1], address[Main] % 256, {RUN})
           /\ log[i - 1].st = OK

\* a read of address 4351 (high byte 16, low byte 255) that got its byte
C2_Witness ==
  /\ Returned(Main, "read") /\ address[Main] = 4351
  /\ Last(log).op = "get" /\ ret[Main] = OK
  /\ Len(AfterPoll(Main)) = 5

\* C3: eeprom_wait_for_write (valid base) sends the probe until the bus
\* reports the address acknowledged: no probe follows an acknowledged one,
\* and it returns only when its latest probe was acknowledged, so the
\* probes sent are as many as the index of the first acknowledged one.
C3_PollExact ==
  LET P == Probes(Main) IN
    /\ \A i \in 1..(Len(P) - 1) : ~P[i].ack
    /\ (pc[Main] = "p_ret" /\ base[Main]) => (Len(P) >= 1 /\ Last(P).ack)
    /\ (pc[Main] = "p_send" /\ Len(P) >= 1) => ~Last(P).ack

\* the poll returns after two unanswered probes and an acknowledged third
C3_Witness ==
  LET P == Probes(Main) IN
    /\ pc[Main] = "p_ret" /\ base[Main]
    /\ Len(P) = 3 /\ ~P[1].ack /\ ~P[2].ack /\ P[3].ack

\* C4: when the first set-slave-address of eeprom_byte_write returns a
\* non-ok status, the write returns exactly that status and issues no
\* other bus call: no probe, no address byte, no data byte.
C4_WriteFirstFailure ==
  (op[Main] = "write" /\ Len(log) >= 1 /\ log[1].st # OK) =>
     /\ Len(log) = 1
     /\ pc[Main] = "ret"
     /\ ret[Main] = log[1].st

\* the device did not acknowledge the slave address of a write
C4_Witness ==
  /\ Returned(Main, "write")
  /\ Len(log) = 1 /\ IsSetAddr(log[1], WRITE)
  /\ log[1].st = "I2C_NO_ACK" /\ ret[Main] = "I2C_NO_ACK"

\* the documented order of the configuration steps
C5_Order ==
  << "gpio_enable_port",
     "scl_digital_enable", "scl_alternate_function", "scl_port_control",
     "sda_digital_enable", "sda_open_drain", "sda_alternate_function",
     "sda_port_control", "initializeI2CMaster" >>

\* C5: eeprom_init stops at the first GPIO configuration step that returns
\* false and returns false: when step k fails exactly k configuration
\* calls were made, in order, and no later step (nor the bus controller
\* initialisation) is invoked.
C5_InitStops ==
  op[Main] = "init" =>
    /\ Len(cfgLog) <= Len(C5_Order)
    /\ \A i \in 1..Len(cfgLog) :
         /\ cfgLog[i].step = C5_Order[i]
         /\ ~cfgLog[i].ok =>
              (i = Len(cfgLog) /\ pc[Main] = "ret" /\ initRet = "false")

\* the sixth step (SDA open drain) failed
C5_Witness ==
  /\ Returned(Main, "init") /\ initRet = "false"
  /\ Len(cfgLog) = 6 /\ ~cfgLog[6].ok
  /\ cfgLog[6].step = "sda_open_drain"

\* C6: a string written byte by byte with write_to_eeprom at an offset and
\* read back one byte at a time from the same addresses is reproduced
\* exactly, on a bus without faults and a part that ends up acknowledging.
C6_StringRoundTrip ==
  (pc[Main] = "d_done" /\ Clean(Main)) => printed[Main] = str[Main]

\* a two-character string that crosses the high address byte (255, 256)
C6_Witness ==
  /\ pc[Main] = "d_done" /\ Clean(Main)
  /\ org[Main] = 255
  /\ str[Main] = <<65, 255>> /\ printed[Main] = <<65, 255>>
  /\ mem[255] = 65 /\ mem[256] = 255

InByteCall(c) == op[c] \in {"write", "read"}

\* C7: eeprom_byte_write and eeprom_byte_read stop at the first bus
\* operation that returns a non-ok status and return it: no bus operation
\* follows one that returned non-ok, and the value returned is the status
\* of the last operation attempted.
C7_ShortCircuit ==
  InByteCall(Main) =>
    /\ \A i \in 1..(Len(log) - 1) : log[i].st = OK
    /\ pc[Main] = "ret" => ret[Main] = Last(log).st

\* C8: the status eeprom_wait_for_write returns is dropped by both byte
\* calls: whatever it is, the caller goes on with its own next bus call
\* (the high address byte in a write, the slave address in a read), and
\* what the caller returns is the status of its own last bus call.
C8_PollStatusDropped ==
  LET T == AfterPoll(Main) IN
    /\ (pc[Main] = "ret" /\ InByteCall(Main) /\ pstatus[Main] # NoStatus) =>
         /\ Len(T) >= 1
         /\ ret[Main] = Last(T).st
         /\ op[Main] = "write" =>
              IsSend(T[1], (address[Main] \div 256) % 256, {START, RUN})
         /\ op[Main] = "read" => IsSetAddr(T[1], WRITE)
    /\ (pc[Main] \in {"w_hi", "r_setw"}) => T = <<>>

\* the poll returned I2C_NO_ACK (the status of its last probe, whose
\* address was acknowledged) and the write went on and returned I2C_OK
C8_Witness ==
  /\ Returned(Main, "write")
  /\ pstatus[Main] = "I2C_NO_ACK"
  /\ ret[Main] = OK
  /\ Len(AfterPoll(Main)) = 3

PollEntered(c) ==
  base[c] /\ (pc[c] \in {"p_setaddr", "p_send", "p_busy", "p_ack", "p_ret"}
              \/ pstatus[c] # NoStatus)

\* C9: with a master that goes idle and a part that ends up acknowledging,
\* every byte write and byte read returns; with a part that never
\* acknowledges, eeprom_wait_for_write (valid base) never returns, and
\* neither does the byte call around it.
C9_Termination ==
  /\ (InByteCall(Main) /\ ~dev.dead) ~> (pc[Main] = "ret")
  /\ [](dev.dead /\ PollEntered(Main) =>
          pc[Main] \in {"p_setaddr", "p_send", "p_busy", "p_ack"})

\* a read of a part still in its write cycle returned once the cycle ended
C9_Witness ==
  /\ Returned(Main, "read") /\ ~dev.dead
  /\ Len(Probes(Main)) = 3 /\ ~Probes(Main)[2].ack /\ Probes(Main)[3].ack

\* C10: a byte write that returns I2C_OK made its bus calls in this order:
\* (bus idle,) set-slave-address(write), the poll (its own
\* set-slave-address and probes), send(address >> 8 as a byte, START|RUN),
\* send(address mod 256, RUN), send(data, RUN|STOP); the data byte is last
\* and the only one of the three framed with STOP.
C10_WriteOrder ==
  /\ (op[Main] = "write" /\ pc[Main] \in {"w_busy", "w_setaddr"}) =>
       log = <<>>
  /\ (op[Main] = "write" /\ pc[Main] = "w_setaddr") => ~bus.busy
  /\ (Returned(Main, "write") /\ ret[Main] = OK) =>
       LET n == Len(Probes(Main))
           T == AfterPoll(Main)
       IN  /\ n >= 1
           /\ Len(log) = n + 5
           /\ IsSetAddr(log[1], WRITE) /\ log[1].st = OK
           /\ IsSetAddr(log[2], WRITE)
           /\ \A i \in 3..(n + 2) :
                IsSend(log[i], 0, {START, RUN, STOP})
           /\ Len(T) = 3
           /\ \A i \in 1..3 : T[i].st = OK
           /\ IsSend(T[1], (address[Main] \div 256) % 256, {START, RUN})
           /\ IsSend(T[2], address[Main] % 256, {RUN})
           /\ IsSend(T[3], data[Main], {RUN, STOP})

\* the write of 65 to address 4351 (bytes 16 and 255) after two probes
C10_Witness ==
  /\ Returned(Main, "write") /\ ret[Main] = OK
  /\ address[Main] = 4351 /\ data[Main] = 65
  /\ Len(Probes(Main)) = 2
  /\ mem[255] = 65

\* the byte in the cell the address of c's call decodes to
Stored(c) == Cell(mem, DevAddr(address[c]))

\* C11: the driver locks nothing.  A byte call that no other caller's call
\* overlaps is a whole transaction: the log holds its bus operations only,
\* a write has stored its byte when it returns and a read returns the byte
\* stored at its address.  (What an overlapped call can do is the witness:
\* two callers interleave their bus operations and a read returns a byte
\* that is not the one stored at its address.)
C11_NoMutex ==
  \A c \in Callers :
    (InByteCall(c) /\ ~overlap[c]) =>
      /\ \A i \in 1..Len(log) : log[i].by = c
      /\ Returned(c, "write") => (ret[c] = OK /\ Stored(c) = data[c])
      /\ Returned(c, "read") => (ret[c] = OK /\ dataOut[c] = Stored(c))

\* the main loop's read of cell 255 (holding 65) was interrupted by the
\* handler's read of cell 256 (holding 0) and returned I2C_OK with 0
C11_Witness ==
  /\ Returned(Main, "read") /\ overlap[Main] /\ Clean(Main)
  /\ ret[Main] = OK
  /\ address[Main] = 255 /\ mem[255] = 65 /\ mem[256] = 0
  /\ dataOut[Main] = 0

\* the configuration steps made so far that succeeded
Configured == {cfgLog[i].step : i \in {j \in 1..Len(cfgLog) : cfgLog[j].ok}}

\* C12: eeprom_init returns true exactly when all nine steps were made and
\* succeeded (the eight GPIO calls returned true and initializeI2CMaster
\* returned I2C_OK); initializeI2CMaster is the ninth call and is made only
\* after the eight GPIO steps succeeded; and no step of eeprom_init takes
\* back a step already made, whatever it returns.
C12_InitAllNine ==
  /\ [](Returned(Main, "init") =>
          /\ initRet \in {"true", "false"}
          /\ initRet = "true" <=>
               /\ Len(cfgLog) = 9
               /\ \A i \in 1..9 : cfgLog[i].ok
               /\ Configured = {C5_Order[i] : i \in 1..9})
  /\ [](\A i \in 1..Len(cfgLog) :
          cfgLog[i].step = "initializeI2CMaster" =>
            /\ i = 9 /\ i = Len(cfgLog)
            /\ \A j \in 1..8 : cfgLog[j].ok /\ cfgLog[j].step = C5_Order[j])
  /\ [][(op[Main] = "init" /\ op'[Main] = "init") =>
          /\ Len(cfgLog') >= Len(cfgLog)
          /\ SubSeq(cfgLog', 1, Len(cfgLog)) = cfgLog
          /\ Configured \subseteq Configured']_vars

\* the eight GPIO steps succeeded, initializeI2CMaster failed: eeprom_init
\* returned false and the pins stay configured
C12_Witness ==
  /\ Returned(Main, "init") /\ initRet = "false"
  /\ Len(cfgLog) = 9 /\ ~cfgLog[9].ok
  /\ cfgLog[9].step = "initializeI2CMaster"
  /\ Cardinality(Configured) = 8

\* the bus calls eeprom_byte_read made itself, after the poll returned
ReadOwn(c) ==
  IF pc[c] \in {"r_setw", "r_hi", "r_lo", "r_setr", "r_get", "ret"}
    THEN AfterPoll(c) ELSE <<>>

\* C13: in eeprom_byte_read the get-byte is issued only after the read's
\* two set-slave-address calls and both address-byte sends returned ok;
\* when one of those four fails the read returns that status without
\* issuing the get-byte; and the caller's data output changes in no step
\* of the read but the get-byte, so a read that fails before it leaves the
\* output as it was.
C13_ReadFrame ==
  /\ [](op[Main] = "read" =>
          LET T == ReadOwn(Main) IN
            /\ \A i \in 1..Len(log) : log[i].op = "get" => Len(T) = 5
            /\ \A i \in 1..Len(T) :
                 T[i].op = "get" =>
                   /\ i = 5
                   /\ \A j \in 1..4 : T[j].st = OK
                   /\ IsSetAddr(T[1], WRITE) /\ T[2].op = "send"
                   /\ T[3].op = "send" /\ IsSetAddr(T[4], READ)
            /\ \A i \in 1..Len(T) :
                 (i <= 4 /\ T[i].st # OK) =>
                   /\ i = Len(T)
                   /\ pc[Main] = "ret" /\ ret[Main] = T[i].st)
  /\ [][(op[Main] = "read" /\ op'[Main] = "read"
            /\ dataOut'[Main] # dataOut[Main]) =>
          /\ pc[Main] = "r_get"
          /\ Len(log') = Len(log) + 1
          /\ Last(log').op = "get" /\ Last(log').st # INVALID]_vars

\* the set-slave-address(read) was not acknowledged: the read returned
\* I2C_NO_ACK after four calls of its own, and the caller's buffer holds 0,
\* not the 65 stored at the address
C13_Witness ==
  /\ Returned(Main, "read") /\ ret[Main] = "I2C_NO_ACK"
  /\ Len(ReadOwn(Main)) = 4
  /\ IsSetAddr(ReadOwn(Main)[4], READ)
  /\ ReadOwn(Main)[4].st = "I2C_NO_ACK"
  /\ Stored(Main) = 65 /\ dataOut[Main] = 0

\* the bottom edges, among the rows below y0 down to row 1, of the shields
\* a bullet at x of width w overlaps horizontally
EdgesBelow(x, w, y0) ==
  {e \in 1..(y0 - 1) :
     \E k \in 1..Len(shieldArray) :
       /\ e = shieldArray[k].yPos + shieldArray[k].height
       /\ x < shieldArray[k].xPos + shieldArray[k].width
       /\ x + w >= shieldArray[k].xPos}

\* the row the bullet is to stop at
StopRow(x, w, y0) ==
  IF y0 <= 1 THEN y0
  ELSE LET E == EdgesBelow(x, w, y0) \cup {1}
       IN  CHOOSE e \in E : \A f \in E : f <= e

\* C14: shootBullet terminates and returns with the bullet's hit flag
\* false; every pass of its loop takes the bullet's y down by exactly 1,
\* x unchanged; and it returns with the bullet at the first row below the
\* start that is the bottom edge of a shield the bullet overlaps
\* horizontally, at row 1 when there is none, and at the start row when
\* that is row 1 or 0.
C14_ShootBullet ==
  /\ [](gpc = "sb_ret" =>
          /\ ~bullet.hit
          /\ bullet.xPos = arg.xPos
          /\ bullet.yPos = StopRow(arg.xPos, 10, arg.yPos))
  /\ [][(gpc = "sb_loop" /\ bullet' # bullet /\ gpc' = "sb_loop") =>
          /\ bullet'.yPos = bullet.yPos - 1
          /\ bullet'.xPos = bullet.xPos
          /\ bullet.yPos <= arg.yPos]_vars
  /\ (gpc = "sb_entry") ~> (gpc = "sb_ret")

\* fired from row 150 at x 40, the bullet touches the left end of shield 1
\* (50 <= 40 + 10) and stops at its bottom edge, row 140
C14_Witness ==
  /\ gpc = "sb_ret"
  /\ arg.xPos = 40 /\ arg.yPos = 150
  /\ bullet.yPos = 140 /\ ~bullet.hit

Max(a, b) == IF a >= b THEN a ELSE b

Min(a, b) == IF a <= b THEN a ELSE b

InMoveLeft == gpc \in {"ml_loop", "ml_ret"}

InMoveRight == gpc \in {"mr_loop", "mr_ret"}

\* where the sprite is to end up
LeftTarget == Max(arg.lim, arg.xPos - arg.num_pixels)

RightTarget == Min(arg.lim, arg.xPos + arg.num_pixels)

\* C15: for a start x inside the limit, move_Left draws only at x from the
\* start x down to max(minX, xPos - num_pixels), never below minX, and
\* leaves the sprite there; move_Right draws only at x from the start x up
\* to min(maxX, xPos + num_pixels), never above maxX, and leaves the sprite
\* there; the first draw is at the start x, each next one a pixel further,
\* all at the y passed in.
C15_MoveClamped ==
  /\ []((InMoveLeft /\ arg.lim <= arg.xPos /\ drawn) =>
          /\ sprite.yPos = arg.yPos
          /\ arg.lim <= sprite.xPos
          /\ LeftTarget <= sprite.xPos /\ sprite.xPos <= arg.xPos)
  /\ []((InMoveRight /\ arg.xPos <= arg.lim /\ drawn) =>
          /\ sprite.yPos = arg.yPos
          /\ sprite.xPos <= arg.lim
          /\ arg.xPos <= sprite.xPos /\ sprite.xPos <= RightTarget)
  /\ []((gpc = "ml_ret" /\ arg.lim <= arg.xPos) =>
          (drawn /\ sprite.xPos = LeftTarget))
  /\ []((gpc = "mr_ret" /\ arg.xPos <= arg.lim) =>
          (drawn /\ sprite.xPos = RightTarget))
  /\ [][(gpc = "ml_loop" /\ sprite' # sprite) =>
          sprite'.xPos = IF drawn THEN sprite.xPos - 1 ELSE arg.xPos]_vars
  /\ [][(gpc = "mr_loop" /\ sprite' # sprite) =>
          sprite'.xPos = IF drawn THEN sprite.xPos + 1 ELSE arg.xPos]_vars

\* C16: move_Left and move_Right terminate for all arguments in the
\* uint16_t range, also when the left limit or the target x is 0 and when
\* the right limit or the target x is 65535.
C16_MoveTerminates ==
  (gpc \in {"ml_test", "mr_test"}) ~> (gpc \in {"ml_ret", "mr_ret"})

\* C17: checkShooting fires (calls shootBullet) exactly when readyShoot is
\* true and touch_event > 0; a firing sets readyShoot to false and takes
\* one off numBullets; otherwise readyShoot, numBullets and the bullet are
\* left unchanged.  No step of game.c sets readyShoot, so after a firing
\* no call fires again until readyShoot is set from outside.
C17_FireOnce ==
  /\ [][(gpc = "cs_test" /\ gpc' # "cs_test") =>
          IF readyShoot /\ touch_event > 0
            THEN /\ gpc' = "sb_entry"
                 /\ readyShoot' = FALSE
                 /\ numBullets' = numBullets - 1
            ELSE /\ gpc' = "cs_ret"
                 /\ UNCHANGED <<readyShoot, numBullets, bullet>>]_vars
  /\ [][(gpc' = "sb_entry" /\ gpc # "sb_entry") =>
          (gpc = "cs_test" /\ readyShoot /\ ~readyShoot')]_vars
  /\ [][(~readyShoot /\ readyShoot') =>
          UNCHANGED <<gpc, numBullets, bullet, arg>>]_vars
  /\ [][numBullets' # numBullets => gpc' = "sb_entry"]_vars
  /\ [](gpc \in {"sb_entry", "sb_loop", "sb_ret"} => arg # NoArg)

\* after one shot (9 bullets left, the bullet at x 115) a second call with
\* touch_event > 0 but readyShoot still false came back without firing
C17_Witness ==
  /\ gpc = "cs_ret" /\ arg = NoArg
  /\ ~readyShoot /\ touch_event > 0
  /\ numBullets = 9 /\ bullet.xPos = 115

\* C18: numBullets, which starts at 10, is never negative: no shot is fired
\* once it has reached 0, however often checkShooting is called and
\* readyShoot set again.
C18_NeverNegative == numBullets >= 0

InPoll(c) ==
  pc[c] \in {"p_verify", "p_setaddr", "p_send", "p_busy", "p_ack", "p_ret"}

\* C19: eeprom_wait_for_write called with a base that fails
\* i2cVerifyBaseAddr returns I2C_INVALID_BASE at once: it sets no slave
\* address and sends no probe.  With a valid base it returns the status of
\* its last probe send, whatever its set-slave-address call returned.
C19_PollStatus ==
  /\ (InPoll(Main) /\ ~base[Main]) =>
       /\ pc[Main] \in {"p_verify", "p_ret"}
       /\ log = <<>>
       /\ pc[Main] = "p_ret" => pstatus[Main] = INVALID
  /\ (pc[Main] = "p_ret" /\ base[Main]) =>
       /\ Len(Probes(Main)) >= 1
       /\ pstatus[Main] = Last(Probes(Main)).st
       /\ Last(log) = Last(Probes(Main))

\* the set-slave-address of the poll returned I2C_NO_ACK, the one probe
\* sent after it I2C_OK: the poll returns I2C_OK
C19_Witness ==
  /\ pc[Main] = "p_ret" /\ base[Main] /\ op[Main] = "read"
  /\ Len(log) = 2
  /\ IsSetAddr(log[1], WRITE) /\ log[1].st = "I2C_NO_ACK"
  /\ IsProbe(log[2]) /\ log[2].st = OK
  /\ pstatus[Main] = OK

====
